---- MODULE Spec2Model ----
(***************************************************************************)
(* Timer-message workflow of the time-tracker bot (src/main.py,            *)
(* src/database.py, src/utils.py): parsing of forwarded "timer stopped"    *)
(* messages, the grouping buffer with its delayed process_grouped_timers   *)
(* job, the confirmation prompts and the Confirm / Cancel buttons.         *)
(*                                                                         *)
(* Modelling conventions                                                   *)
(*  - A message text is a sequence of tokens (TimeTok / WordTok).          *)
(*  - An optional value (Python None) is the empty sequence, a value v is  *)
(*    <<v>>.                                                               *)
(*  - callback_data is the sequence of its '_'-separated pieces, which is  *)
(*    what data.split('_') returns.                                        *)
(*  - Money is kept in sixtieths of a rouble: (minutes / 60) * rate is     *)
(*    stored as minutes * rate.                                            *)
(*  - Message handlers and button handlers run on the dispatcher thread,   *)
(*    one update at a time; job-queue callbacks run on another thread, so  *)
(*    process_grouped_timers is split where it reads the shared list a     *)
(*    second time.                                                         *)
(*  - context.user_data starts empty in the program and no handler sets    *)
(*    'grouping_timers'; the flag is session data the handlers only read.  *)
(*    Init lets it be either value so that both branches of                *)
(*    process_timer_message are exercised.                                 *)
(*  - registration_handler keeps one dialogue per (chat, user); the        *)
(*    variable conversations holds its state.  Only RATE and GOAL are ever *)
(*    entered; a dialogue open in the private chat takes the user's texts  *)
(*    away from process_timer_message.                                     *)
(*  - Eight specifications: Spec (one user who may be registered and one   *)
(*    who is not), SpecTwo (two registered users), SpecParse (the two      *)
(*    parsers of src/utils.py called directly on bounded inputs; the       *)
(*    variable call records the argument and the result), SpecText (one    *)
(*    registered user whose messages may be any text; call records the     *)
(*    text of the last message), SpecNotify (the notification settings     *)
(*    made by /notify and by buttons), SpecLive (the message handler and   *)
(*    the job under a fair job queue), SpecStart (a fresh process with     *)
(*    nobody registered: /start and the registration dialogue, then the    *)
(*    timer workflow) and SpecAccount (a registered user with a            *)
(*    registration dialogue still open in a second chat, the timer         *)
(*    workflow and the reset).                                             *)
(***************************************************************************)
EXTENDS Integers, Sequences, FiniteSets, Bags, TLC

\* ------------------------------------------------------------------ bounds
Users == {1, 2}
\* timer messages accepted plus buttons pressed, over all users
MaxInputs == 4
\* the same, in the runs where both users are registered
MaxInputsTwo == 3
\* the longest text, in tokens, given to a parser called directly
MaxTokens == 4
\* the inputs of the runs that keep the text of the last message
MaxInputsText == 2
\* timer messages, buttons and answers of the open registration dialogue, in
\* the runs of a registered user
MaxInputsAccount == 5

\* inputs of a run that only sets notifications
MaxInputsNotify == 3
\* timer messages of the runs in which the job queue is fair
MaxInputsLive == 3
\* steps of the registration dialogue, timer messages and buttons, in the
\* runs that begin with nobody registered
MaxInputsStart == 6

\* ------------------------------------------------------- program constants
MaxTimerMinutes == 24 * 60
Rates == {60}
\* the goal of a user at start-up, in roubles
Goal == 100

\* ------------------------------------------------------------ text tokens
WordTok(w) == [k |-> w, h |-> 0, m |-> 0, s |-> 0]
TimeTok(h, m, s) == [k |-> "time", h |-> h, m |-> m, s |-> s]

\* "таймер остановлен" in any letter case
Stopped == WordTok("stopped")
\* "Затрачено" exactly as the primary pattern spells it
SpentCap == WordTok("Spent")
\* "затрачено" in another letter case (matches only after lower())
SpentLow == WordTok("spent")
Other == WordTok("word")

RECURSIVE SumSeq(_)
SumSeq(s) == IF s = <<>> THEN 0 ELSE Head(s) + SumSeq(Tail(s))

\* the conversion with "seconds > 30" in place of "seconds >= 30": a variant
\* that rounds the half minute down
ToMinutes_half_down(t) == t.h * 60 + t.m + (IF t.s > 30 THEN 1 ELSE 0)

\* total_minutes = hours * 60 + minutes, plus one when seconds >= 30
ToMinutes(t) == t.h * 60 + t.m + (IF t.s >= 30 THEN 1 ELSE 0)

\* the gate without its upper limit: a variant that lets a computed value
\* above 24 hours through
ValidTotal_no_limit(n) == 0 < n

\* 0 < total_minutes <= 24 * 60
ValidTotal(n) == 0 < n /\ n <= MaxTimerMinutes

\* positions where 'Затрачено\s+(\d{2}):(\d{2}):(\d{2})' matches
PrimaryMatches(text) ==
    {i \in 1..(Len(text) - 1) : text[i] = SpentCap /\ text[i + 1].k = "time"}

\* positions of HH:MM:SS substrings the fallback loop returns from
AltMatches(text) ==
    {i \in 1..Len(text) :
        /\ text[i].k = "time"
        /\ 0 <= text[i].h /\ text[i].h < 24
        /\ 0 <= text[i].m /\ text[i].m < 60
        /\ 0 <= text[i].s /\ text[i].s < 60
        /\ ValidTotal(ToMinutes(text[i]))}

Min(S) == CHOOSE x \in S : \A y \in S : x <= y

\* the parser with min(total_minutes, 24 * 60) in place of the upper limit
\* of the gate on the primary pattern: a variant that takes an elapsed time
\* above 24 hours for 24 hours
parse_timer_message_clamped(text) ==
    IF PrimaryMatches(text) # {}
    THEN LET t == text[Min(PrimaryMatches(text)) + 1]
         IN  IF ToMinutes(t) = 0 THEN <<>>
             ELSE IF ToMinutes(t) > MaxTimerMinutes THEN <<MaxTimerMinutes>>
             ELSE <<ToMinutes(t)>>
    ELSE IF AltMatches(text) # {}
         THEN <<ToMinutes(text[Min(AltMatches(text))])>>
         ELSE <<>>

parse_timer_message(text) ==
    IF PrimaryMatches(text) # {}
    THEN LET t == text[Min(PrimaryMatches(text)) + 1]
         IN  IF ValidTotal(ToMinutes(t)) THEN <<ToMinutes(t)>> ELSE <<>>
    ELSE IF AltMatches(text) # {}
         THEN <<ToMinutes(text[Min(AltMatches(text))])>>
         ELSE <<>>

\* the test with "or" in place of "and": a variant that takes a text with
\* one marker phrase for a timer notification
IsTimerText_either(text) ==
    \E i \in 1..Len(text) : text[i] \in {Stopped, SpentCap, SpentLow}

\* "таймер остановлен" in text.lower() and "затрачено" in text.lower()
IsTimerText(text) ==
    /\ \E i \in 1..Len(text) : text[i] = Stopped
    /\ \E i \in 1..Len(text) : text[i] \in {SpentCap, SpentLow}

\* the texts a user sends in this model
Texts ==
    { <<Stopped, SpentCap, TimeTok(0, 1, 0)>>,
      <<Stopped, SpentCap, TimeTok(0, 1, 30)>>,
      <<Stopped, SpentLow, TimeTok(0, 0, 10), TimeTok(0, 1, 40)>>,
      <<Stopped, SpentCap, TimeTok(0, 0, 0)>>,
      <<Other, TimeTok(0, 5, 0)>> }

\* ---------------------------------------------------------- callback data
Piece(w) == [w |-> w, n |-> 0]
Num(n) == [w |-> "#", n |-> n]

\* f'timer_confirm_{minutes}'
SingleConfirmData(minutes) == <<Piece("timer"), Piece("confirm"), Num(minutes)>>
\* f'timer_group_confirm_{total_minutes}'
GroupConfirmData(total) ==
    <<Piece("timer"), Piece("group"), Piece("confirm"), Num(total)>>
\* 'timer_cancel'
CancelData == <<Piece("timer"), Piece("cancel")>>

\* data.startswith('timer_confirm_')
IsTimerConfirm(data) ==
    Len(data) >= 3 /\ data[1] = Piece("timer") /\ data[2] = Piece("confirm")
\* data.startswith('timer_group_confirm_')
IsTimerGroupConfirm(data) ==
    /\ Len(data) >= 4
    /\ data[1] = Piece("timer") /\ data[2] = Piece("group")
    /\ data[3] = Piece("confirm")
\* data == 'timer_cancel'
IsTimerCancel(data) == data = CancelData

\* int(data.split('_')[i]) with a zero-based index i
IntPiece(data, i) == data[i + 1].n

\* ------------------------------------------------------------------ state
VARIABLES
    users,      \* table users: user_id -> [exists, rate, goal, earned, notify_freq]
    records,    \* table time_records: the rows of each user_id, in insertion order
    user_data,  \* context.user_data of every user
    prompts,    \* confirmation messages sent to each user's chat, by message id
    jobs,       \* process_grouped_timers jobs in the job queue (a bag)
    duplicates, \* callback queries of a double tap, not yet handled (a bag)
    notice,     \* what the last run of a timer button branch told each user
    received,   \* history: the durations accepted from each user, in arrival order
    burst,      \* history: every message of the user came within the previous window
    inputs,     \* history: timer messages accepted plus buttons pressed so far
    faulted,    \* history: a call to the chat transport or to storage has failed
    budget,     \* the number of inputs the run takes at most (never changes)
    call,       \* the last call the run records: function, argument, result
    scheduler,  \* the notification jobs of the APScheduler scheduler, by id
    conversations \* registration_handler.conversations: state by chat and user

vars == <<users, records, user_data, prompts, jobs, duplicates, notice,
          received, burst, inputs, faulted, budget, call, scheduler, conversations>>

\* nothing has been called yet
NoCall == [fn |-> "none", arg |-> <<>>, result |-> <<>>]

NoMessage == [kind |-> "none", id |-> 0]
MenuMessage == [kind |-> "menu", id |-> 0]
PromptMessage(id) == [kind |-> "prompt", id |-> id]

\* the chats a user talks to the bot in: the private chat, where the timer
\* messages arrive, and a group the bot is a member of
Chats == {"private", "group"}

EmptyUserData(grouping) ==
    [grouping_timers |-> grouping,
     rate |-> <<>>,
     has_timer_buffer |-> FALSE,
     timer_buffer |-> <<>>,
     last_bot_message |-> NoMessage]

\* The tables are kept in a file, so users may be registered at start-up;
\* registered ranges over the sets of user ids that have a row in users.
\* The grouping flag is read for registered users only.
InitWith(registered) ==
    /\ \E reg \in registered, rate \in [Users -> Rates] :
          users = [u \in Users |->
                      [exists |-> u \in reg, rate |-> rate[u], goal |-> Goal,
                       earned |-> 0, notify_freq |-> "day"]]
    /\ user_data \in [Users -> {EmptyUserData(g) : g \in BOOLEAN}]
    /\ \A u \in Users : user_data[u].grouping_timers => users[u].exists
    /\ records = [u \in Users |-> <<>>]
    /\ prompts = [u \in Users |-> <<>>]
    /\ jobs = EmptyBag
    /\ duplicates = EmptyBag
    /\ notice = [u \in Users |-> "none"]
    /\ received = [u \in Users |-> <<>>]
    /\ burst = [u \in Users |-> TRUE]
    /\ inputs = 0
    /\ faulted = FALSE
    /\ call = NoCall
    /\ scheduler = {}
    /\ conversations = [c \in Chats |-> [u \in Users |-> "END"]]

\* one user who may be registered and one who is not
Init == InitWith({{}, {1}}) /\ budget = MaxInputs

\* the number of failed calls among the outcomes of one handler run
Failed(oks) == Len(SelectSeq(oks, LAMBDA ok : ~ok))

\* Single-fault assumption: at most one call fails in a run.
Fail(oks) ==
    /\ Failed(oks) <= (IF faulted THEN 0 ELSE 1)
    /\ faulted' = (faulted \/ Failed(oks) > 0)

\* ------------------------------------------------------------- database.py
user_exists(db, u) == db[u].exists

\* earnings = (minutes / 60) * rate, in sixtieths
Earnings(minutes, rate) == minutes * rate

\* INSERT INTO time_records ...; UPDATE users SET earned = earned + ?
\* (via is history: the message whose button made the call)
add_time_record(db, recs, u, minutes, via) ==
    [users |-> [db EXCEPT ![u].earned = @ + Earnings(minutes, db[u].rate)],
     records |-> [recs EXCEPT ![u] =
                     Append(@, [minutes |-> minutes,
                                earnings |-> Earnings(minutes, db[u].rate),
                                via |-> via])]]

\* ------------------------------------------------------ process_single_timer
\* A confirmation message as the chat holds it.  items, total and earnings
\* describe the text that was sent (earnings = (minutes / 60) * rate with
\* the rate of db.get_user_data at that moment), data is the callback_data
\* of its confirm button.
Prompt(u, kind, items, total, data) ==
    [user |-> u, kind |-> kind, items |-> items, total |-> total,
     earnings |-> Earnings(total, users[u].rate),
     data |-> data, deleted |-> FALSE]

\* the message of process_grouped_timers: its earnings use the rate the job
\* has read before it sums the list
BatchPrompt(u, items, total, rate) ==
    [Prompt(u, "batch", items, total, GroupConfirmData(total))
        EXCEPT !.earnings = Earnings(total, rate)]

\* (mutant) the prompt is built without the user's row
process_single_timer_no_row(ud, nextId, u, minutes, registered, live, sendOk) ==
    LET sent == IF live /\ sendOk
                THEN <<Prompt(u, "single", <<minutes>>, minutes,
                              SingleConfirmData(minutes))>>
                ELSE <<>>
    IN  [ud |-> IF sent # <<>>
                THEN [ud EXCEPT !.last_bot_message = PromptMessage(nextId)]
                ELSE ud,
         sent |-> sent]

\* live: called with the user's own update (False for the PseudoUpdate of
\* process_grouped_timers, whose reply_text returns None and whose context
\* is the job's).  Returns the user's new user_data and the message sent.
process_single_timer(ud, nextId, u, minutes, registered, live, sendOk) ==
    LET sent == IF registered /\ live /\ sendOk
                THEN <<Prompt(u, "single", <<minutes>>, minutes,
                              SingleConfirmData(minutes))>>
                ELSE <<>>
        ud1 == IF sent # <<>>
               THEN [ud EXCEPT !.last_bot_message = PromptMessage(nextId)]
               ELSE ud
    IN  [ud |-> ud1, sent |-> sent]

\* ----------------------------------------------------- process_timer_message
\* job_queue.run_once(process_grouped_timers, 2, context=(user_id, chat_id, list))
Job(u) == [user |-> u, pc |-> "scheduled", total |-> 0, rate |-> 0]

\* a job of the user is still waiting, so its 2 seconds have not elapsed
InWindow(u) == \E j \in BagToSet(jobs) : j.user = u /\ j.pc = "scheduled"

\* the message is a timer notification of a registered user
Accepted(u, text) ==
    IsTimerText(text) /\ parse_timer_message(text) # <<>> /\ user_exists(users, u)

\* (mutant) the message is buffered and a job scheduled whatever the
\* grouping flag says
timer_message_effect_buffers(u, text, groupOk, sendOk) ==
    /\ user_data' = [user_data EXCEPT
                        ![u].has_timer_buffer = TRUE,
                        ![u].timer_buffer =
                            Append(@, parse_timer_message(text)[1])]
    /\ jobs' = jobs (+) SetToBag({Job(u)})
    /\ UNCHANGED prompts

\* What an accepted timer message does to the session, the chat and the job
\* queue.
\* groupOk: get_me() and the acknowledgement reply_text succeed
\* sendOk: the confirmation message of process_single_timer is sent
timer_message_effect(u, text, groupOk, sendOk) ==
    LET minutes == parse_timer_message(text)[1]
        ud == user_data[u]
        buffered == [ud EXCEPT !.has_timer_buffer = TRUE,
                               !.timer_buffer = Append(@, minutes)]
        single == process_single_timer(
                      IF ud.grouping_timers THEN buffered ELSE ud,
                      Len(prompts[u]) + 1, u, minutes, TRUE, TRUE, sendOk)
    IN  IF ud.grouping_timers /\ groupOk
        THEN /\ user_data' = [user_data EXCEPT ![u] = buffered]
             /\ jobs' = jobs (+) SetToBag({Job(u)})
             /\ UNCHANGED prompts
        ELSE /\ user_data' = [user_data EXCEPT ![u] = single.ud]
             /\ prompts' = [prompts EXCEPT ![u] = @ \o single.sent]
             /\ UNCHANGED jobs

\* (mutant) the handler records the time at once, without a confirmation
process_timer_message_commits(u, text, groupOk, sendOk) ==
    LET added == add_time_record(users, records, u,
                                 parse_timer_message(text)[1], 0)
    IN  IF ~Accepted(u, text)
        THEN UNCHANGED <<users, records, user_data, prompts, jobs, duplicates>>
        ELSE /\ timer_message_effect(u, text, groupOk, sendOk)
             /\ users' = added.users
             /\ records' = added.records
             /\ UNCHANGED duplicates

process_timer_message(u, text, groupOk, sendOk) ==
    IF ~Accepted(u, text)
    THEN UNCHANGED <<users, records, user_data, prompts, jobs, duplicates>>
    ELSE /\ timer_message_effect(u, text, groupOk, sendOk)
         /\ UNCHANGED <<users, records, duplicates>>

\* The dispatcher hands one text message of user u to process_timer_message.
\* An outcome that the handler never consults is not enumerated twice.
message_update(u, text, groupOk, sendOk) ==
    /\ conversations["private"][u] = "END"
    /\ ~Accepted(u, text) => (groupOk /\ sendOk)
    /\ (user_data[u].grouping_timers /\ groupOk) => sendOk
    /\ ~user_data[u].grouping_timers => groupOk
    /\ process_timer_message(u, text, groupOk, sendOk)
    /\ Fail(<<groupOk, sendOk>>)
    /\ IF Accepted(u, text)
       THEN /\ inputs < budget
            /\ inputs' = inputs + 1
            /\ received' = [received EXCEPT
                               ![u] = Append(@, parse_timer_message(text)[1])]
            /\ burst' = [burst EXCEPT
                            ![u] = @ /\ (received[u] = <<>> \/ InWindow(u))]
       ELSE UNCHANGED <<inputs, received, burst>>
    /\ UNCHANGED <<notice, budget>>

\* An unregistered user, whose every message ends at the same return, sends
\* one text.
TimerMessage ==
    \E u \in Users, text \in Texts, groupOk \in BOOLEAN, sendOk \in BOOLEAN :
        /\ ~user_exists(users, u) => text = <<Stopped, SpentCap, TimeTok(0, 1, 0)>>
        /\ message_update(u, text, groupOk, sendOk)
        /\ UNCHANGED <<call, scheduler, conversations>>

\* --------------------------------------------------- process_grouped_timers
\* The job runs once its 2 seconds have elapsed; the job queue runs one job
\* at a time.
\* First part of the job: the checks on the list it was given,
\* rate = user_data['rate'] and total_minutes = sum(timer_buffer).  The job holds the list object of
\* user_data['timer_buffer'] itself, so it reads the list as it is now.
grouped_timers_start(j) ==
    LET u == j.user
        timer_buffer == user_data[u].timer_buffer
        single == process_single_timer(user_data[u], Len(prompts[u]) + 1, u,
                                       timer_buffer[1], user_exists(users, u),
                                       FALSE, TRUE)
    IN  IF timer_buffer = <<>>
        THEN /\ jobs' = jobs (-) SetToBag({j})
             /\ UNCHANGED <<user_data, prompts>>
        ELSE IF Len(timer_buffer) = 1
        THEN /\ jobs' = jobs (-) SetToBag({j})
             /\ user_data' = [user_data EXCEPT ![u] = single.ud]
             /\ prompts' = [prompts EXCEPT ![u] = @ \o single.sent]
        ELSE IF ~user_exists(users, u)
        THEN /\ jobs' = jobs (-) SetToBag({j})
             /\ UNCHANGED <<user_data, prompts>>
        ELSE /\ jobs' = (jobs (-) SetToBag({j})) (+)
                        SetToBag({[j EXCEPT !.pc = "summed",
                                            !.rate = users[u].rate,
                                            !.total = SumSeq(timer_buffer)]})
             /\ UNCHANGED <<user_data, prompts>>

JobStart ==
    \E j \in BagToSet(jobs) :
        /\ j.pc = "scheduled"
        /\ \A k \in BagToSet(jobs) : k.pc = "scheduled"
        /\ grouped_timers_start(j)
        /\ UNCHANGED <<users, records, duplicates, notice,
                       received, burst, inputs, faulted, budget, call, scheduler, conversations>>

\* (mutant) the itemised text lists the durations by magnitude
grouped_timers_emit_sorted(j, sendOk, storeOk) ==
    LET u == j.user
        items == SortSeq(user_data[u].timer_buffer, LAMBDA a, b : a < b)
        id == Len(prompts[u]) + 1
    IN  /\ jobs' = jobs (-) SetToBag({j})
        /\ IF sendOk
           THEN /\ prompts' = [prompts EXCEPT ![u] = Append(@,
                        BatchPrompt(u, items, j.total, j.rate))]
                /\ user_data' =
                     IF storeOk
                     THEN [user_data EXCEPT
                              ![u].last_bot_message = PromptMessage(id)]
                     ELSE user_data
           ELSE UNCHANGED <<user_data, prompts>>

\* (mutant) one buffer is shared by all users: the job itemises and totals
\* the durations of every user
grouped_timers_emit_shared(j, sendOk, storeOk) ==
    LET u == j.user
        items == user_data[1].timer_buffer \o user_data[2].timer_buffer
        id == Len(prompts[u]) + 1
    IN  /\ jobs' = jobs (-) SetToBag({j})
        /\ IF sendOk
           THEN /\ prompts' = [prompts EXCEPT ![u] = Append(@,
                        BatchPrompt(u, items, SumSeq(items), j.rate))]
                /\ user_data' =
                     IF storeOk
                     THEN [user_data EXCEPT
                              ![u].last_bot_message = PromptMessage(id)]
                     ELSE user_data
           ELSE UNCHANGED <<user_data, prompts>>

\* Second part of the job: the itemised text (a second read of the list),
\* the message with the buttons, and update_user_data.
\* sendOk: send_message succeeds; storeOk: update_user_data reaches the
\* user's user_data (it goes through bot.dispatcher inside a try).
grouped_timers_emit(j, sendOk, storeOk) ==
    LET u == j.user
        items == user_data[u].timer_buffer
        id == Len(prompts[u]) + 1
    IN  /\ jobs' = jobs (-) SetToBag({j})
        /\ IF sendOk
           THEN /\ prompts' = [prompts EXCEPT ![u] = Append(@,
                        BatchPrompt(u, items, j.total, j.rate))]
                /\ user_data' =
                     IF storeOk
                     THEN [user_data EXCEPT
                              ![u].last_bot_message = PromptMessage(id)]
                     ELSE user_data
           ELSE UNCHANGED <<user_data, prompts>>

JobEmit ==
    \E j \in BagToSet(jobs), sendOk \in BOOLEAN, storeOk \in BOOLEAN :
        /\ j.pc = "summed"
        /\ ~sendOk => storeOk
        /\ grouped_timers_emit(j, sendOk, storeOk)
        /\ Fail(<<sendOk, storeOk>>)
        /\ UNCHANGED <<users, records, duplicates, notice,
                       received, burst, inputs, budget, call, scheduler, conversations>>

\* ------------------------------------------------------------ show_main_menu
\* Deletes the message user_data['last_bot_message'] names, forgets it, and
\* sends the menu.  Returns the user's new user_data and the chat's messages.
show_main_menu(ud, ps, lastDelOk, menuOk) ==
    LET last == ud.last_bot_message
        ps1 == IF last.kind = "prompt" /\ lastDelOk
               THEN [ps EXCEPT ![last.id].deleted = TRUE]
               ELSE ps
    IN  [ud |-> [ud EXCEPT !.last_bot_message =
                     IF menuOk THEN MenuMessage ELSE NoMessage],
         prompts |-> ps1]

\* ----------------------------------------------------------- button_callback
\* query.message.delete()
delete_message(ps, id, delOk) ==
    IF delOk THEN [ps EXCEPT ![id].deleted = TRUE] ELSE ps

\* The part shared by the three timer branches after the storage call:
\* delete the message with the buttons, reply, refresh the main menu.
after_decision(q, delOk, ackOk, lastDelOk, menuOk) ==
    LET ps1 == delete_message(prompts[q.user], q.message, delOk)
        menu == show_main_menu(user_data[q.user], ps1, lastDelOk, menuOk)
    IN  IF ackOk
        THEN /\ prompts' = [prompts EXCEPT ![q.user] = menu.prompts]
             /\ user_data' = [user_data EXCEPT ![q.user] = menu.ud]
        ELSE /\ prompts' = [prompts EXCEPT ![q.user] = ps1]
             /\ UNCHANGED user_data

\* (mutant) a failure of add_time_record is swallowed: the prompt is removed
\* and the time acknowledged as added
timer_confirm_silent(q, minutes, dbOk, delOk, ackOk, lastDelOk, menuOk) ==
    LET added == add_time_record(users, records, q.user, minutes, q.message)
    IN  IF dbOk /\ user_exists(users, q.user)
        THEN /\ users' = added.users
             /\ records' = added.records
             /\ after_decision(q, delOk, ackOk, lastDelOk, menuOk)
             /\ notice' = [notice EXCEPT
                              ![q.user] = IF ackOk THEN "added" ELSE "failed"]
        ELSE /\ after_decision(q, delOk, ackOk, lastDelOk, menuOk)
             /\ notice' = [notice EXCEPT ![q.user] = "added"]
             /\ UNCHANGED <<users, records>>

\* elif data.startswith('timer_confirm_') / 'timer_group_confirm_'
\* An exception of add_time_record or of the acknowledgement reply_text ends
\* in the except branch, which replies "Произошла ошибка при добавлении
\* времени. Пожалуйста, попробуйте снова."
timer_confirm(q, minutes, dbOk, delOk, ackOk, lastDelOk, menuOk) ==
    LET added == add_time_record(users, records, q.user, minutes, q.message)
    IN  IF dbOk /\ user_exists(users, q.user)
        THEN /\ users' = added.users
             /\ records' = added.records
             /\ after_decision(q, delOk, ackOk, lastDelOk, menuOk)
             /\ notice' = [notice EXCEPT
                              ![q.user] = IF ackOk THEN "added" ELSE "failed"]
        ELSE /\ notice' = [notice EXCEPT ![q.user] = "failed"]
             /\ UNCHANGED <<users, records, user_data, prompts>>

\* (mutant) the cancel branch records the time like the confirm branch
timer_cancel_commits(q, delOk, ackOk, lastDelOk, menuOk) ==
    timer_confirm(q, prompts[q.user][q.message].total, TRUE,
                  delOk, ackOk, lastDelOk, menuOk)

\* elif data == 'timer_cancel'
timer_cancel(q, delOk, ackOk, lastDelOk, menuOk) ==
    /\ after_decision(q, delOk, ackOk, lastDelOk, menuOk)
    /\ notice' = [notice EXCEPT
                     ![q.user] = IF ackOk THEN "cancelled" ELSE "none"]
    /\ UNCHANGED <<users, records>>

button_callback(q, dbOk, delOk, ackOk, lastDelOk, menuOk) ==
    IF IsTimerConfirm(q.data)
    THEN timer_confirm(q, IntPiece(q.data, 2), dbOk, delOk, ackOk, lastDelOk, menuOk)
    ELSE IF IsTimerGroupConfirm(q.data)
    THEN timer_confirm(q, IntPiece(q.data, 3), dbOk, delOk, ackOk, lastDelOk, menuOk)
    ELSE IF IsTimerCancel(q.data)
    THEN timer_cancel(q, delOk, ackOk, lastDelOk, menuOk)
    ELSE UNCHANGED <<users, records, user_data, prompts, notice>>

\* the callback query of a press of a button of message id in the user's chat
Query(u, id, cancel) ==
    [user |-> u, message |-> id,
     data |-> IF cancel THEN CancelData ELSE prompts[u][id].data]

\* An outcome that the handler never consults is not enumerated twice.
Handle(q) ==
    \E dbOk \in BOOLEAN, delOk \in BOOLEAN, ackOk \in BOOLEAN,
       lastDelOk \in BOOLEAN, menuOk \in BOOLEAN :
        /\ IsTimerCancel(q.data) => dbOk
        /\ ~(dbOk /\ user_exists(users, q.user)) => (delOk /\ ackOk)
        /\ ~ackOk => (lastDelOk /\ menuOk)
        /\ user_data[q.user].last_bot_message.kind # "prompt" => lastDelOk
        /\ button_callback(q, dbOk, delOk, ackOk, lastDelOk, menuOk)
        /\ Fail(<<dbOk, delOk, ackOk, lastDelOk, menuOk>>)

\* The user presses a button of a confirmation message the chat still shows,
\* once or twice in a row; the dispatcher handles the first callback query
\* now and the second one later.
Tap ==
    \E u \in Users, cancel \in BOOLEAN, twice \in BOOLEAN :
      \E id \in 1..Len(prompts[u]) :
        /\ ~prompts[u][id].deleted
        /\ inputs + (IF twice THEN 2 ELSE 1) <= budget
        /\ inputs' = inputs + (IF twice THEN 2 ELSE 1)
        /\ Handle(Query(u, id, cancel))
        /\ duplicates' = IF twice
                         THEN duplicates (+) SetToBag({Query(u, id, cancel)})
                         ELSE duplicates
        /\ UNCHANGED <<jobs, received, burst, budget, call, scheduler, conversations>>

SecondTap ==
    \E q \in BagToSet(duplicates) :
        /\ Handle(q)
        /\ duplicates' = duplicates (-) SetToBag({q})
        /\ UNCHANGED <<jobs, received, burst, inputs, budget, call, scheduler, conversations>>

\* ------------------------------------------------------------ specification
Next ==
    \/ TimerMessage
    \/ JobStart
    \/ JobEmit
    \/ Tap
    \/ SecondTap

Spec == Init /\ [][Next]_vars

\* ------------------------------------------------------- helper predicates
RECURSIVE SumMinutes(_)
SumMinutes(recs) ==
    IF recs = <<>> THEN 0 ELSE Head(recs).minutes + SumMinutes(Tail(recs))

\* the rows that were committed from the buttons of message id
CommitsVia(u, id) == {i \in 1..Len(records[u]) : records[u][i].via = id}

BatchPrompts(u) == {id \in 1..Len(prompts[u]) : prompts[u][id].kind = "batch"}

JobsOf(u) == {j \in BagToSet(jobs) : j.user = u}

\* nothing of the user is still under way
Quiescent(u) ==
    /\ JobsOf(u) = {}
    /\ \A q \in BagToSet(duplicates) : q.user # u

\* this step is the handling of a press of Confirm (cancel = FALSE) or of
\* Cancel (cancel = TRUE) of message id of the user
HandledStep(u, id, cancel) ==
    \E dbOk \in BOOLEAN, delOk \in BOOLEAN, ackOk \in BOOLEAN,
       lastDelOk \in BOOLEAN, menuOk \in BOOLEAN :
        button_callback(Query(u, id, cancel), dbOk, delOk, ackOk, lastDelOk, menuOk)

ConfirmStep ==
    \E u \in Users : \E id \in 1..Len(prompts[u]) : HandledStep(u, id, FALSE)

\* --------------------------------------------------------------- the claims

C2_AtMostOnce ==
    \A u \in Users : \A id \in 1..Len(prompts[u]) :
        ~faulted => Cardinality(CommitsVia(u, id)) <= 1

\* C3: storage (time_records and users.earned) changes only in a step that
\* handles a press of a Confirm button.
C3_CommitOnlyOnConfirm ==
    [][(users' # users \/ records' # records) => ConfirmStep]_vars

\* C3 witness: a prompt is on show, a job has run, and nothing is committed
C3_Witness ==
    \E u \in Users :
        /\ Len(prompts[u]) >= 1
        /\ Len(user_data[u].timer_buffer) >= 2
        /\ BatchPrompts(u) # {}
        /\ records[u] = <<>>
        /\ users[u].earned = 0

C5_CancelKeepsStorage ==
    [][\A u \in Users : \A id \in 1..Len(prompts[u]) :
          UNCHANGED <<users, records>> \/ ~HandledStep(u, id, TRUE)]_vars

\* C5 witness: a prompt was cancelled (deleted, the menu shown, no call
\* failed and nothing committed)
C5_Witness ==
    \E u \in Users : \E id \in 1..Len(prompts[u]) :
        /\ prompts[u][id].deleted
        /\ ~faulted
        /\ user_data[u].last_bot_message = MenuMessage
        /\ records[u] = <<>>

Flushed(u) ==
    \E id \in BatchPrompts(u) : prompts[u][id].items = user_data[u].timer_buffer

C10_PromptsIndependent ==
    [][\A u \in Users : \A id \in 1..Len(prompts[u]) : \A cancel \in BOOLEAN :
          (HandledStep(u, id, cancel) /\ ~faulted')
          => \A k \in 1..Len(prompts[u]) :
                k # id => prompts'[u][k] = prompts[u][k]]_vars

\* a waiting process_grouped_timers job of the user runs in this step
JobRuns(u) == CopiesIn(Job(u), jobs') < CopiesIn(Job(u), jobs)

C12_SinglePathDirect ==
    \A u \in Users :
        ~user_data[u].grouping_timers =>
            /\ ~user_data[u].has_timer_buffer
            /\ user_data[u].timer_buffer = <<>>
            /\ JobsOf(u) = {}
            /\ ~faulted =>
                  /\ Len(prompts[u]) = Len(received[u])
                  /\ \A i \in 1..Len(prompts[u]) :
                        /\ prompts[u][i].kind = "single"
                        /\ prompts[u][i].items = <<received[u][i]>>
                        /\ prompts[u][i].data = SingleConfirmData(received[u][i])

\* C12 witness: a user outside grouping mode has sent two timer messages of
\* different durations and holds their two prompts
C12_Witness ==
    \E u \in Users :
        /\ ~user_data[u].grouping_timers
        /\ ~faulted
        /\ Len(received[u]) = 2
        /\ received[u][1] # received[u][2]
        /\ Len(prompts[u]) = 2
        /\ ~prompts[u][2].deleted

IsPrefix(a, b) == Len(a) <= Len(b) /\ SubSeq(b, 1, Len(a)) = a

\* C13: the items of every batch prompt are the user's durations in the
\* order in which the timer messages arrived, whatever their magnitudes.
C13_ItemsInArrivalOrder ==
    \A u \in Users : \A id \in BatchPrompts(u) :
        IsPrefix(prompts[u][id].items, received[u])

\* C13 witness: a batch prompt lists a longer duration before a shorter one
C13_Witness ==
    \E u \in Users : \E id \in BatchPrompts(u) :
        /\ Len(prompts[u][id].items) = 2
        /\ prompts[u][id].items[1] > prompts[u][id].items[2]

ButtonStep == inputs' # inputs \/ duplicates' # duplicates

\* C15: when the handling of a Confirm press adds no time record
\* (add_time_record failed), the user is told that adding failed, the
\* users table (earned) is unchanged, the session and the prompts are as
\* before, so timer messages are handled as before, and no job is queued
\* that would retry the commit.
C15_CommitFailureReported ==
    [][\A u \in Users : \A id \in 1..Len(prompts[u]) :
          \/ ~ButtonStep
          \/ records'[u] # records[u]
          \/ ~HandledStep(u, id, FALSE)
          \/ /\ notice'[u] = "failed"
             /\ users' = users
             /\ user_data' = user_data
             /\ prompts' = prompts
             /\ jobs' = jobs]_vars

\* C15 witness: a Confirm failed in storage: the user was told so, nothing
\* is recorded and the prompt is still on show
C15_Witness ==
    \E u \in Users : \E id \in 1..Len(prompts[u]) :
        /\ notice[u] = "failed"
        /\ faulted
        /\ records[u] = <<>>
        /\ users[u].earned = 0
        /\ ~prompts[u][id].deleted
        /\ user_data[u].last_bot_message = PromptMessage(id)

\* both users are registered, each with or without the grouping flag
InitTwo == InitWith({Users}) /\ budget = MaxInputsTwo

SpecTwo == InitTwo /\ [][Next]_vars

\* everything the program holds for one user
View(u) ==
    <<users[u], records[u], user_data[u], prompts[u], notice[u], received[u],
      [j \in JobsOf(u) |-> CopiesIn(j, jobs)]>>

RECURSIVE SumEarnings(_)
SumEarnings(recs) ==
    IF recs = <<>> THEN 0 ELSE Head(recs).earnings + SumEarnings(Tail(recs))

\* what the user holds is made of the user's own messages and decisions
OwnOnly(u) ==
    /\ user_data[u].timer_buffer =
          IF user_data[u].grouping_timers THEN received[u] ELSE <<>>
    /\ \A id \in 1..Len(prompts[u]) :
          /\ prompts[u][id].user = u
          /\ IF prompts[u][id].kind = "batch"
             THEN /\ IsPrefix(prompts[u][id].items, received[u])
                  /\ \E k \in 0..Len(received[u]) :
                        prompts[u][id].total = SumSeq(SubSeq(received[u], 1, k))
             ELSE \E i \in 1..Len(received[u]) :
                     /\ prompts[u][id].items = <<received[u][i]>>
                     /\ prompts[u][id].total = received[u][i]
    /\ \A i \in 1..Len(records[u]) :
          /\ records[u][i].via \in 1..Len(prompts[u])
          /\ records[u][i].minutes = prompts[u][records[u][i].via].total
          /\ records[u][i].earnings =
                Earnings(records[u][i].minutes, users[u].rate)
    /\ users[u].earned = SumEarnings(records[u])

Digits(n) == [k |-> "digits", n |-> n]
Sign(c) == [k |-> c, n |-> 0]
\* the letter 'ч'
HourSign == Sign("h")
\* the letter 'м'
MinSign == Sign("m")
\* the letters 'ин', which make 'мин' after MinSign
InLetters == Sign("in")
Dot == Sign(".")
Space == Sign(" ")
Letter == Sign("x")

\* positions where r'(\d+)ч' (sign = HourSign) or r'(\d+)м' (MinSign) matches
UnitMatches(text, sign) ==
    {i \in 1..(Len(text) - 1) : text[i].k = "digits" /\ text[i + 1] = sign}

\* int(re.search(...).group(1)): the digits of the leftmost match
UnitValue(text, sign) == text[Min(UnitMatches(text, sign))].n

\* positions where r'(\d+)мин' matches
MinWordMatches(text) ==
    {i \in 1..(Len(text) - 2) :
        /\ text[i].k = "digits"
        /\ text[i + 1] = MinSign
        /\ text[i + 2] = InLetters}

\* re.match(r'^(\d+(\.\d+)?)$', time_input)
IsDecimal(text) ==
    \/ Len(text) = 1 /\ text[1].k = "digits"
    \/ /\ Len(text) = 3
       /\ text[1].k = "digits" /\ text[2] = Dot /\ text[3].k = "digits"

\* 10 ** (the number of digits of n), for the digit runs of this model
Scale(n) == IF n < 10 THEN 10 ELSE 100

\* int(float(time_input) * 60): hours to minutes, truncated
DecimalMinutes(text) ==
    IF Len(text) = 1
    THEN text[1].n * 60
    ELSE ((text[1].n * Scale(text[3].n) + text[3].n) * 60) \div Scale(text[3].n)

\* time_input.isdigit()
IsDigit(text) == Len(text) = 1 /\ text[1].k = "digits"

\* parse_time_input with "elif minutes" in place of "if minutes": a variant
\* that drops the minutes when an hours token is present
parse_time_input_one_unit(time_input) ==
    IF UnitMatches(time_input, HourSign) # {}
    THEN <<UnitValue(time_input, HourSign) * 60>>
    ELSE IF UnitMatches(time_input, MinSign) # {}
    THEN <<UnitValue(time_input, MinSign)>>
    ELSE IF IsDecimal(time_input)
    THEN <<DecimalMinutes(time_input)>>
    ELSE <<>>

parse_time_input(time_input) ==
    IF UnitMatches(time_input, HourSign) # {}
       \/ UnitMatches(time_input, MinSign) # {}
    THEN <<(IF UnitMatches(time_input, HourSign) # {}
            THEN UnitValue(time_input, HourSign) * 60 ELSE 0)
           + (IF UnitMatches(time_input, MinSign) # {}
              THEN UnitValue(time_input, MinSign) ELSE 0)>>
    ELSE IF MinWordMatches(time_input) # {}
    THEN <<time_input[Min(MinWordMatches(time_input))].n>>
    ELSE IF IsDecimal(time_input)
    THEN <<DecimalMinutes(time_input)>>
    ELSE IF IsDigit(time_input)
    THEN <<time_input[1].n>>
    ELSE <<>>

\* the digit runs of the inputs: their decimal fractions are exact as floats
DigitValues == {0, 2, 5, 45}

TimeInputTokens ==
    {Digits(n) : n \in DigitValues}
        \cup {HourSign, MinSign, InLetters, Dot, Space, Letter}

\* the time inputs of this model: no two digit runs are adjacent
TimeInputs ==
    {text \in UNION {[1..n -> TimeInputTokens] : n \in 1..MaxTokens} :
        \A i \in 1..(Len(text) - 1) :
            ~(text[i].k = "digits" /\ text[i + 1].k = "digits")}

\* the elapsed times of the timer texts given to the parser directly
Triplets ==
    { TimeTok(1, 29, 30), TimeTok(1, 29, 29), TimeTok(0, 0, 0),
      TimeTok(0, 0, 30), TimeTok(24, 0, 1), TimeTok(23, 59, 30),
      TimeTok(0, 75, 0), TimeTok(0, 5, 0), TimeTok(24, 0, 30) }

TimerTexts ==
    UNION {[1..n -> Triplets \cup {SpentCap, SpentLow, Other}] :
              n \in 1..MaxTokens}

\* --------------------------------------------- the parsers called directly
\* everything but the record of the call
session == <<users, records, user_data, prompts, jobs, duplicates, notice,
             received, burst, inputs, faulted, budget, scheduler, conversations>>

\* a process that has only imported utils: no user, no input to the bot
InitParse == InitWith({{}}) /\ budget = 0

\* minutes = parse_time_input(time_input)
ParseTimeInput ==
    /\ call = NoCall
    /\ \E time_input \in TimeInputs :
          call' = [fn |-> "parse_time_input", arg |-> time_input,
                   result |-> parse_time_input(time_input)]
    /\ UNCHANGED session

\* minutes = parse_timer_message(message_text)
ParseTimerMessage ==
    /\ call = NoCall
    /\ \E message_text \in TimerTexts :
          call' = [fn |-> "parse_timer_message", arg |-> message_text,
                   result |-> parse_timer_message(message_text)]
    /\ UNCHANGED session

NextParse ==
    \/ ParseTimeInput
    \/ ParseTimerMessage

SpecParse == InitParse /\ [][NextParse]_vars

\* C17: parse_time_input on a string of digits only returns the number the
\* digits spell, as minutes ("45" gives 45).
C17_BareIntegerIsMinutes ==
    (call.fn = "parse_time_input" /\ IsDigit(call.arg))
        => call.result = <<call.arg[1].n>>

\* C18: when the input holds an hours token (digits then 'ч') and/or a
\* minutes token (digits then 'м', as also in 'мин'), in either order and
\* whatever else the input holds, parse_time_input returns hours * 60 +
\* minutes, a missing unit counting 0; so no such input is read as decimal
\* hours or as a bare integer.
C18_UnitTokensSum ==
    call.fn = "parse_time_input" =>
        LET text == call.arg
            hoursAt == UnitMatches(text, HourSign)
            minutesAt == UnitMatches(text, MinSign)
            hours == IF hoursAt = {} THEN 0 ELSE text[Min(hoursAt)].n
            minutes == IF minutesAt = {} THEN 0 ELSE text[Min(minutesAt)].n
        IN  (hoursAt # {} \/ minutesAt # {})
                => call.result = <<hours * 60 + minutes>>

\* C18 witness: "45м2ч", the minutes token before the hours token, gives 165
C18_Witness ==
    /\ call.fn = "parse_time_input"
    /\ call.arg = <<Digits(45), MinSign, Digits(2), HourSign>>
    /\ call.result = <<165>>

\* the time tokens of a text
TimesIn(text) == {i \in 1..Len(text) : text[i].k = "time"}

\* C19: a result of parse_timer_message is HH * 60 + MM of a triplet of the
\* text, plus 1 exactly when its SS >= 30: of the triplet after the marker
\* on the primary pattern, of the only triplet when the text holds one, on
\* either pattern (01:29:30 gives 90 and 01:29:29 gives 89 on both).
C19_SecondsRoundHalfUp ==
    call.fn = "parse_timer_message" =>
        LET text == call.arg
            Conv(t) == IF t.s >= 30 THEN t.h * 60 + t.m + 1
                                     ELSE t.h * 60 + t.m
        IN  /\ call.result # <<>> =>
                /\ \E i \in TimesIn(text) : call.result[1] = Conv(text[i])
                /\ PrimaryMatches(text) # {} =>
                      call.result[1] = Conv(text[Min(PrimaryMatches(text)) + 1])
                /\ \A i \in TimesIn(text) :
                      TimesIn(text) = {i} => call.result[1] = Conv(text[i])
            /\ text \in {<<SpentCap, TimeTok(1, 29, 30)>>,
                         <<SpentLow, TimeTok(1, 29, 30)>>} =>
                  call.result = <<90>>
            /\ text \in {<<SpentCap, TimeTok(1, 29, 29)>>,
                         <<SpentLow, TimeTok(1, 29, 29)>>} =>
                  call.result = <<89>>

\* C19 witness: the fallback pattern has rounded 01:29:30 up to 90
C19_Witness ==
    /\ call.fn = "parse_timer_message"
    /\ call.arg = <<SpentLow, TimeTok(1, 29, 30)>>
    /\ PrimaryMatches(call.arg) = {}
    /\ call.result = <<90>>

ElapsedSeconds(t) == t.h * 3600 + t.m * 60 + t.s

\* C21: parse_timer_message returns null whenever the elapsed time it
\* extracts is longer than 24 hours (86400 seconds): the triplet after the
\* marker on the primary pattern, the only triplet of the text otherwise;
\* 24:00:01 after the marker gives null.
C21_OverADayIsNull ==
    call.fn = "parse_timer_message" =>
        LET text == call.arg
        IN  /\ (/\ PrimaryMatches(text) # {}
                /\ ElapsedSeconds(text[Min(PrimaryMatches(text)) + 1]) > 86400)
                  => call.result = <<>>
            /\ \A i \in TimesIn(text) :
                  (TimesIn(text) = {i} /\ ElapsedSeconds(text[i]) > 86400)
                      => call.result = <<>>

\* the triplets of a text whose fields are in range: HH < 24, MM < 60, SS < 60
InRangeTimes(text) ==
    {i \in TimesIn(text) :
        text[i].h < 24 /\ text[i].m < 60 /\ text[i].s < 60}

\* C22: when the primary pattern does not match, the result of
\* parse_timer_message is decided by the first triplet with in-range fields
\* alone: its conversion when that lies in 1..1440, null when it does not
\* (and null when there is no such triplet), whatever follows it.
C22_FirstInRangeDecides ==
    (call.fn = "parse_timer_message" /\ PrimaryMatches(call.arg) = {}) =>
        LET text == call.arg
            Conv(t) == t.h * 60 + t.m + (IF t.s >= 30 THEN 1 ELSE 0)
        IN  IF InRangeTimes(text) = {}
            THEN call.result = <<>>
            ELSE LET first == text[Min(InRangeTimes(text))]
                 IN  IF 0 < Conv(first) /\ Conv(first) <= 1440
                     THEN call.result = <<Conv(first)>>
                     ELSE call.result = <<>>

\* ------------------------------------------- the last message is kept
\* the texts of these runs: those of Texts, texts with one marker phrase
\* only, and timer notifications without a usable elapsed time
MessageTexts ==
    Texts \cup
    { <<Stopped, TimeTok(0, 5, 0)>>,
      <<SpentLow, TimeTok(0, 5, 0)>>,
      <<SpentCap, TimeTok(0, 5, 0)>>,
      <<Stopped, SpentLow>>,
      <<Stopped, SpentCap, TimeTok(24, 0, 30)>>,
      <<Stopped, SpentLow, TimeTok(24, 0, 30)>> }

\* user 1 is registered, user 2 is not
InitText == InitWith({{1}}) /\ budget = MaxInputsText

\* process_timer_message(update, context); call keeps the text of the update
\* and, as handlers return nothing, the parity of its update_id, which is
\* what tells two updates with the same text apart
TextMessage ==
    \E u \in Users, text \in MessageTexts,
       groupOk \in BOOLEAN, sendOk \in BOOLEAN :
        /\ message_update(u, text, groupOk, sendOk)
        /\ call' = [fn |-> "process_timer_message", arg |-> text,
                    result |-> IF call.result = <<0>> THEN <<1>> ELSE <<0>>]
        /\ UNCHANGED <<scheduler, conversations>>

\* every button is pressed once in these runs
NextText ==
    \/ TextMessage
    \/ JobStart
    \/ JobEmit
    \/ Tap

SpecText == InitText /\ [][NextText]_vars

\* the step is a run of process_timer_message on text
MessageStep(text) == call' # call /\ call'.arg = text

\* C23: a message that lacks one of the two marker phrases ("таймер
\* остановлен", "затрачено", in any letter case) is not treated as a timer
\* notification: process_timer_message creates no prompt, appends nothing to
\* the buffer, schedules no job and changes no storage, with or without an
\* HH:MM:SS substring in the text.
C23_BothMarkersRequired ==
    [][\A text \in MessageTexts :
          (/\ MessageStep(text)
           /\ \/ \A i \in 1..Len(text) : text[i] # Stopped
              \/ \A i \in 1..Len(text) : text[i] \notin {SpentCap, SpentLow})
              => UNCHANGED <<users, records, user_data, prompts, jobs,
                             duplicates, notice, received>>]_vars

\* C23 witness: the registered user, with a prompt pending, has sent a text
\* with an HH:MM:SS substring and the second marker phrase only
C23_Witness ==
    /\ call.fn = "process_timer_message"
    /\ call.arg = <<SpentCap, TimeTok(0, 5, 0)>>
    /\ users[1].exists
    /\ prompts[1] # <<>>

\* the text names no elapsed time the parser can use: it holds no triplet,
\* or the triplet after the marker converts to 0 or to more than 1440, or
\* every triplet of the text does
NoUsableTime(text) ==
    LET Conv(t) == t.h * 60 + t.m + (IF t.s >= 30 THEN 1 ELSE 0)
        Out(t) == Conv(t) = 0 \/ Conv(t) > 1440
    IN  \/ \A i \in TimesIn(text) : Out(text[i])
        \/ /\ PrimaryMatches(text) # {}
           /\ Out(text[Min(PrimaryMatches(text)) + 1])

C29_FailureOnlyWithoutCommit ==
    [][\A u \in Users :
          Len(records'[u]) > Len(records[u]) => notice'[u] # "failed"]_vars

reset_goal_confirm_keeps_history(u) ==
    /\ users' = [users EXCEPT ![u].earned = 0]
    /\ user_data' = [user_data EXCEPT ![u].last_bot_message = MenuMessage]
    /\ UNCHANGED records

\* elif data == 'reset_goal_confirm': delete_user_time_records(user_id)
\* deletes the user's rows of time_records and sets earned to 0 in one
\* transaction; then the message "Все данные успешно сброшены" with the
\* buttons to the goal and to the menu becomes last_bot_message
reset_goal_confirm(u) ==
    /\ users' = [users EXCEPT ![u].earned = 0]
    /\ records' = [records EXCEPT ![u] = <<>>]
    /\ user_data' = [user_data EXCEPT ![u].last_bot_message = MenuMessage]

\* what the reset dialogue leaves alone
beside_settings == <<prompts, jobs, duplicates, notice, received, burst,
                     faulted, budget, call, scheduler, conversations>>

\* the confirmed reset is one more input of the run
settings_input ==
    /\ inputs < budget
    /\ inputs' = inputs + 1
    /\ UNCHANGED beside_settings

ResetProgress ==
    \E u \in Users :
        /\ user_exists(users, u)
        /\ reset_goal_confirm(u)
        /\ settings_input

\* ------------------------------------------------------------ notifications
\* update.effective_user.id of each user: the decimal form of the first id
\* begins the decimal form of the second
ChatId == [u \in Users |-> IF u = 1 THEN 1 ELSE 12]

\* A job of the scheduler is known by its id, notify_{user_id}{suffix}.
NotifyJob(u, suffix) == [user |-> ChatId[u], suffix |-> suffix]

\* str(id).startswith(str(prefix)) on decimal forms
RECURSIVE DigitsStartWith(_, _)
DigitsStartWith(id, prefix) ==
    \/ id = prefix
    \/ id >= 10 /\ DigitsStartWith(id \div 10, prefix)

\* job.id.startswith(f"notify_{user_id}"): a suffix is empty or begins with
\* an underscore, so the test is decided by the digits
IdStartsWith(job, u) == DigitsStartWith(job.user, ChatId[u])

\* job.id == f"notify_{user_id}"
IdIs(job, u) == job.user = ChatId[u] /\ job.suffix = ""

\* the loop of setup_notification that removes the job named notify_{user_id}
remove_named_job(sched, u) == {job \in sched : ~IdIs(job, u)}

\* variant: /notify off removes the job named notify_{user_id} only
remove_user_jobs_named_only(sched, u) == {job \in sched : ~IdIs(job, u)}

\* the loop that removes every job whose id starts with notify_{user_id}
remove_user_jobs(sched, u) == {job \in sched : ~IdStartsWith(job, u)}

setup_notification(sched, u, freq) ==
    IF freq \in {"hour", "day", "week"}
    THEN remove_named_job(sched, u) \cup {NotifyJob(u, "")}
    ELSE remove_named_job(sched, u)

update_notify_freq(db, u, notify_freq) ==
    IF user_exists(db, u)
    THEN [db EXCEPT ![u].notify_freq = notify_freq]
    ELSE db

\* the three cron jobs of day_multi
DailyJobs(u) == {NotifyJob(u, "_daily_0"), NotifyJob(u, "_daily_1"),
                 NotifyJob(u, "_daily_2")}

\* HH:MM strings that pass the format test of /notify day; the last one is
\* refused by the cron trigger
TimeFormat == {"09:00", "18:00", "99:99"}
ClockTimes == {"09:00", "18:00"}
\* the arguments of /notify week that int() reads as 0..6
WeekDays == {"0", "3"}

\* /notify with its arguments, as context.args
CommandArgs ==
    {<<>>, <<"often">>, <<"off">>, <<"hour">>, <<"day">>, <<"day", "18:00">>,
     <<"day", "99:99">>, <<"day", "noon">>, <<"day_multi">>, <<"week">>,
     <<"week", "3">>, <<"week", "9">>}

\* notify_command: what it does to the scheduler and to the users table
notify_command(u, args) ==
    LET freq == args[1]
        time_str == IF Len(args) > 1 THEN args[2] ELSE "09:00"
        day_of_week == IF Len(args) > 1 THEN args[2] ELSE "0"
    IN  IF Len(args) < 1 \/ freq \notin {"hour", "day", "day_multi", "week", "off"}
        THEN UNCHANGED <<scheduler, users>>
        ELSE CASE freq = "off" ->
                    /\ scheduler' = remove_user_jobs(scheduler, u)
                    /\ users' = update_notify_freq(users, u, "off")
               [] freq = "hour" ->
                    /\ scheduler' = setup_notification(scheduler, u, "hour")
                    /\ users' = update_notify_freq(users, u, "hour")
               [] freq = "day" ->
                    IF time_str \notin TimeFormat
                    THEN UNCHANGED <<scheduler, users>>
                    ELSE IF time_str \notin ClockTimes
                    THEN /\ scheduler' = remove_user_jobs(scheduler, u)
                         /\ UNCHANGED users
                    ELSE /\ scheduler' = remove_user_jobs(scheduler, u)
                                            \cup {NotifyJob(u, "_day")}
                         /\ users' = update_notify_freq(users, u,
                                                        "day_" \o time_str)
               [] freq = "day_multi" ->
                    /\ scheduler' = remove_user_jobs(scheduler, u)
                                       \cup DailyJobs(u)
                    /\ users' = update_notify_freq(users, u, "day_multi")
               [] freq = "week" ->
                    IF day_of_week \notin WeekDays
                    THEN UNCHANGED <<scheduler, users>>
                    ELSE /\ scheduler' = remove_user_jobs(scheduler, u)
                                            \cup {NotifyJob(u, "_week")}
                         /\ users' = update_notify_freq(users, u,
                                                        "week_" \o day_of_week)

\* callback data of the notification buttons the bot shows, as
\* data.split('_') ("Своё время" is notify_day_custom, "« Назад" is
\* notify_settings)
NotifyButtons ==
    {<<"notify", "hour">>, <<"notify", "day">>, <<"notify", "week">>,
     <<"notify", "off">>, <<"notify", "day", "time", "9", "00">>,
     <<"notify", "day", "time", "18", "00">>, <<"notify", "day", "custom">>,
     <<"notify", "settings">>}

\* f"{hour:02d}" of int(part)
TwoDigits(part) == IF part = "9" THEN "09" ELSE part

SettingsMessage == [kind |-> "settings", id |-> 0]

\* button_callback, the branch data.startswith('notify_'); each of its paths
\* ends with a new message whose id is kept in last_bot_message
notify_button(u, data) ==
    LET freq == data[2]
        time_str == TwoDigits(data[4]) \o ":" \o TwoDigits(data[5])
    IN  /\ user_data' = [user_data EXCEPT ![u].last_bot_message = SettingsMessage]
        /\ CASE freq = "day" /\ Len(data) <= 2 ->
                    UNCHANGED <<scheduler, users>>
             [] freq = "day" /\ Len(data) > 2 /\ data[3] = "time" ->
                    /\ scheduler' = remove_user_jobs(scheduler, u)
                                       \cup {NotifyJob(u, "_day")}
                    /\ users' = update_notify_freq(users, u, "day_" \o time_str)
             [] freq = "week" /\ Len(data) > 2 ->
                    /\ scheduler' = remove_user_jobs(scheduler, u)
                                       \cup {NotifyJob(u, "_week")}
                    /\ users' = update_notify_freq(users, u, "week_" \o data[3])
             [] freq = "off" ->
                    /\ scheduler' = remove_user_jobs(scheduler, u)
                    /\ users' = update_notify_freq(users, u, "off")
             [] freq = "day_multi" ->
                    /\ scheduler' = remove_user_jobs(scheduler, u)
                                       \cup DailyJobs(u)
                    /\ users' = update_notify_freq(users, u, "day_multi")
             [] OTHER ->
                    /\ scheduler' = setup_notification(scheduler, u, freq)
                    /\ users' = update_notify_freq(users, u, freq)

beside_notifications == <<records, prompts, jobs, duplicates, notice,
                          received, burst, faulted, budget, conversations>>

\* call keeps the sender and the arguments of the command (the pieces of the
\* callback data, for a button), the parity of its update_id and the number
\* of the user's own jobs the scheduler held when it arrived
NotifyCall(fn, u, args) ==
    [fn |-> fn,
     arg |-> <<[user |-> u, args |-> args]>>,
     result |-> <<IF call.result # <<>> /\ call.result[1] = 0 THEN 1 ELSE 0,
                  Cardinality({job \in scheduler : job.user = ChatId[u]})>>]

NotifyCommand ==
    \E u \in Users, args \in CommandArgs :
        /\ inputs < budget
        /\ inputs' = inputs + 1
        /\ notify_command(u, args)
        /\ call' = NotifyCall("notify_command", u, args)
        /\ UNCHANGED user_data
        /\ UNCHANGED beside_notifications

NotifyButton ==
    \E u \in Users, data \in NotifyButtons :
        /\ inputs < budget
        /\ inputs' = inputs + 1
        /\ notify_button(u, data)
        /\ call' = NotifyCall("button_callback", u, data)
        /\ UNCHANGED beside_notifications

\* two registered users; the scheduler of a process that has just started
\* holds no notification job
InitNotify == InitWith({Users}) /\ budget = MaxInputsNotify

NextNotify ==
    \/ NotifyCommand
    \/ NotifyButton

SpecNotify == InitNotify /\ [][NextNotify]_vars

\* the step is /notify off sent by u
NotifyOffStep(u) ==
    /\ call' # call
    /\ call'.fn = "notify_command"
    /\ call'.arg = <<[user |-> u, args |-> <<"off">>]>>

NotifyStep(u) ==
    /\ call' # call
    /\ call'.fn \in {"notify_command", "button_callback"}
    /\ call'.arg[1].user = u

\* the jobs of u in a scheduler
OwnJobs(sched, u) == {job \in sched : job.user = ChatId[u]}

\* the values of notify_freq that name a schedule, and the jobs each names
Schedules ==
    {"off", "hour", "day", "week", "day_09:00", "day_18:00", "day_multi",
     "week_0", "week_3"}

ScheduleJobs(u, freq) ==
    CASE freq = "off" -> {}
      [] freq \in {"hour", "day", "week"} -> {NotifyJob(u, "")}
      [] freq \in {"day_09:00", "day_18:00"} -> {NotifyJob(u, "_day")}
      [] freq = "day_multi" -> DailyJobs(u)
      [] freq \in {"week_0", "week_3"} -> {NotifyJob(u, "_week")}

\* C35: after a step of u that stored a new schedule in notify_freq, the
\* jobs of u in the scheduler are exactly the jobs of that schedule; no job
\* of an earlier schedule is left
C35_OnlyNewScheduleJobs ==
    [][\A u \in Users :
          /\ NotifyStep(u)
          /\ users'[u].notify_freq # users[u].notify_freq
          /\ users'[u].notify_freq \in Schedules
          => OwnJobs(scheduler', u) = ScheduleJobs(u, users'[u].notify_freq)]_vars

\* C36: a notification setting of u leaves every job of the other users in
\* the scheduler as it was, whatever the two ids are
C36_OtherUsersJobsKept ==
    [][\A u \in Users :
          NotifyStep(u) =>
              \A v \in Users \ {u} :
                  OwnJobs(scheduler', v) = OwnJobs(scheduler, v)]_vars

\* ----------------------------------------------- the job queue runs its jobs
\* One registered user; the job queue runs every job that is due, so a
\* process_grouped_timers job that waits is started and a started one ends.
InitLive == InitWith({{1}}) /\ budget = MaxInputsLive

NextLive ==
    \/ TimerMessage
    \/ JobStart
    \/ JobEmit

SpecLive ==
    /\ InitLive
    /\ [][NextLive]_vars
    /\ WF_vars(JobStart)
    /\ WF_vars(JobEmit)

\* some confirmation message sent to u lists the k-th duration accepted from u
Presented(u, k) ==
    /\ k <= Len(received[u])
    /\ \E i \in 1..Len(prompts[u]) :
        \E n \in 1..Len(prompts[u][i].items) :
            prompts[u][i].items[n] = received[u][k]

Rouble == Sign("rouble")
Minus == Sign("-")

\* float(text.replace('₽', '')...strip()), for the answers of this model:
\* digits, with or without a minus, are a number; anything else raises
\* ValueError (the empty sequence)
float_amount(text) ==
    LET cleaned == SelectSeq(text, LAMBDA t : t # Rouble)
    IN  IF Len(cleaned) = 1 /\ cleaned[1].k = "digits"
        THEN <<cleaned[1].n>>
        ELSE IF Len(cleaned) = 2 /\ cleaned[1] = Minus /\ cleaned[2].k = "digits"
        THEN <<0 - cleaned[2].n>>
        ELSE <<>>

\* what a user answers when asked for the rate: 60, 90₽, -60, a word, or a
\* forwarded timer message
RateAnswers ==
    {<<Digits(60)>>, <<Digits(90), Rouble>>, <<Minus, Digits(60)>>, <<Letter>>,
     <<Stopped, SpentCap, TimeTok(0, 1, 0)>>, <<Stopped, SpentCap, TimeTok(0, 0, 0)>>}

\* ... and when asked for the goal
GoalAnswers ==
    {<<Digits(100)>>, <<Digits(200), Rouble>>, <<Letter>>,
     <<Stopped, SpentCap, TimeTok(0, 1, 0)>>, <<Stopped, SpentCap, TimeTok(0, 0, 0)>>}

\* INSERT INTO users, or UPDATE users SET rate, goal, notify_freq when the
\* row exists
add_user(db, u, rate, goal) ==
    [db EXCEPT ![u] = [exists |-> TRUE, rate |-> rate, goal |-> goal,
                       earned |-> IF db[u].exists THEN db[u].earned ELSE 0,
                       notify_freq |-> "day"]]

\* /start in chat c
start(c, u) ==
    LET menu == show_main_menu(user_data[u], prompts[u], TRUE, TRUE)
    IN  IF user_exists(users, u)
        THEN /\ user_data' = [user_data EXCEPT ![u] = menu.ud]
             /\ prompts' = [prompts EXCEPT ![u] = menu.prompts]
             /\ conversations' = [conversations EXCEPT ![c][u] = "END"]
        ELSE /\ conversations' = [conversations EXCEPT ![c][u] = "RATE"]
             /\ UNCHANGED <<user_data, prompts>>

\* The branch of rate_input, goal_input for a text with both marker phrases:
\* process_single_timer is called with the user's update.  For a user
\* without a row db.get_user_data returns None, user_data['rate'] raises and
\* the handler answers that the timer could not be processed.
timer_in_dialogue(c, u, text, stay) ==
    LET minutes == parse_timer_message(text)
        single == process_single_timer(user_data[u], Len(prompts[u]) + 1, u,
                                       minutes[1], user_exists(users, u),
                                       TRUE, TRUE)
    IN  IF minutes = <<>>
        THEN /\ conversations' = [conversations EXCEPT ![c][u] = stay]
             /\ UNCHANGED <<user_data, prompts, notice, received>>
        ELSE /\ conversations' = [conversations EXCEPT ![c][u] = "END"]
             /\ user_data' = [user_data EXCEPT ![u] = single.ud]
             /\ prompts' = [prompts EXCEPT ![u] = @ \o single.sent]
             /\ notice' = [notice EXCEPT
                              ![u] = IF user_exists(users, u)
                                     THEN @ ELSE "timer_error"]
             /\ received' = [received EXCEPT
                                ![u] = IF user_exists(users, u)
                                       THEN Append(@, minutes[1]) ELSE @]

rate_input(c, u, text) ==
    IF IsTimerText(text)
    THEN /\ timer_in_dialogue(c, u, text, "RATE")
         /\ UNCHANGED <<users, scheduler>>
    ELSE /\ IF float_amount(text) # <<>>
            THEN /\ user_data' = [user_data EXCEPT
                                     ![u].rate = float_amount(text)]
                 /\ conversations' = [conversations EXCEPT ![c][u] = "GOAL"]
            ELSE UNCHANGED <<user_data, conversations>>
         /\ UNCHANGED <<users, scheduler, prompts, notice, received>>

goal_input(c, u, text) ==
    LET goal == float_amount(text)
        rate == user_data[u].rate
        menu == show_main_menu(user_data[u], prompts[u], TRUE, TRUE)
    IN  IF IsTimerText(text)
        THEN /\ timer_in_dialogue(c, u, text, "GOAL")
             /\ UNCHANGED <<users, scheduler>>
        ELSE IF goal = <<>>
        THEN UNCHANGED <<users, scheduler, user_data, prompts, notice,
                         received, conversations>>
        ELSE IF rate = <<>>
        THEN /\ conversations' = [conversations EXCEPT ![c][u] = "END"]
             /\ UNCHANGED <<users, scheduler, user_data, prompts, notice,
                            received>>
        ELSE /\ users' = add_user(users, u, rate[1], goal[1])
             /\ scheduler' = setup_notification(scheduler, u, "day")
             /\ user_data' = [user_data EXCEPT ![u] = menu.ud]
             /\ prompts' = [prompts EXCEPT ![u] = menu.prompts]
             /\ conversations' = [conversations EXCEPT ![c][u] = "END"]
             /\ UNCHANGED <<notice, received>>

\* what the registration dialogue leaves alone
beside_registration == <<records, jobs, duplicates, burst, faulted, budget,
                         call>>

\* user 1 is the one who registers; a step of the dialogue is one more input
Start ==
    \E c \in Chats :
        /\ inputs < budget
        /\ inputs' = inputs + 1
        /\ start(c, 1)
        /\ UNCHANGED <<users, scheduler, notice, received>>
        /\ UNCHANGED beside_registration

RateInput ==
    \E c \in Chats, text \in RateAnswers :
        /\ conversations[c][1] = "RATE"
        /\ inputs < budget
        /\ inputs' = inputs + 1
        /\ rate_input(c, 1, text)
        /\ UNCHANGED beside_registration

GoalInput ==
    \E c \in Chats, text \in GoalAnswers :
        /\ conversations[c][1] = "GOAL"
        /\ inputs < budget
        /\ inputs' = inputs + 1
        /\ goal_input(c, 1, text)
        /\ UNCHANGED beside_registration

\* Nobody is registered and the session is empty.  No process_grouped_timers
\* job is ever in the queue in these runs (C33), so the two parts of the job
\* are not among the steps.
InitStart == InitWith({{}}) /\ budget = MaxInputsStart

NextStart ==
    \/ Start
    \/ RateInput
    \/ GoalInput
    \/ TimerMessage
    \/ Tap
    \/ SecondTap
    \/ ResetProgress

SpecStart == InitStart /\ [][NextStart]_vars

\* C32: a user without a row in users has no confirmation prompt, no row of
\* time_records, nothing in the timer buffer and no process_grouped_timers
\* job, whatever the user has sent: to process_timer_message, or to
\* rate_input and goal_input, which call process_single_timer directly.
C32_NoPromptWithoutRow ==
    \A u \in Users :
        ~user_exists(users, u)
            => /\ prompts[u] = <<>>
               /\ records[u] = <<>>
               /\ user_data[u].timer_buffer = <<>>
               /\ \A j \in BagToSet(jobs) : j.user # u

\* C32 witness: a user without a row has sent a parseable timer message
\* while asked for the rate or the goal, process_single_timer has run and
\* answered that the timer could not be processed
C32_Witness ==
    \E u \in Users :
        /\ ~user_exists(users, u)
        /\ notice[u] = "timer_error"
        /\ \E c \in Chats : conversations[c][u] = "END"
        /\ prompts[u] = <<>>

\* C33: from an empty session no user ever has the grouping flag set, a
\* timer buffer present or filled, or a process_grouped_timers job scheduled,
\* and while no call has failed every accepted timer message has its own
\* single prompt, in order of arrival.
C33_GroupingNeverSet ==
    /\ jobs = EmptyBag
    /\ \A u \in Users :
          /\ ~user_data[u].grouping_timers
          /\ ~user_data[u].has_timer_buffer
          /\ user_data[u].timer_buffer = <<>>
          /\ ~faulted =>
                /\ Len(prompts[u]) = Len(received[u])
                /\ \A i \in 1..Len(prompts[u]) :
                      /\ prompts[u][i].kind = "single"
                      /\ prompts[u][i].items = <<received[u][i]>>
                      /\ prompts[u][i].total = received[u][i]

\* C33 witness: a user who registered in this run has sent two timer
\* messages and holds a single prompt for each, with nothing buffered
C33_Witness ==
    \E u \in Users :
        /\ user_exists(users, u)
        /\ ~faulted
        /\ Len(received[u]) = 2
        /\ Len(prompts[u]) = 2
        /\ prompts[u][2].kind = "single"
        /\ ~prompts[u][2].deleted
        /\ user_data[u].timer_buffer = <<>>
        /\ jobs = EmptyBag

\* int(a / b) for b > 0: the fraction is cut off towards zero
Trunc(a, b) == IF a >= 0 THEN a \div b ELSE 0 - ((0 - a) \div b)

\* Database.get_progress: None (the empty sequence) without a row; earned is
\* in sixtieths of a rouble, so earned / goal is earned / (60 * goal) here.
\* hours_left is the fraction num / den of an hour, den > 0.
get_progress(db, u) ==
    LET data == db[u]
        left == 60 * data.goal - data.earned
    IN  IF ~data.exists THEN <<>>
        ELSE <<[goal |-> data.goal,
                earned |-> data.earned,
                percent |-> IF data.goal > 0
                            THEN IF Trunc(100 * data.earned, 60 * data.goal) < 100
                                 THEN Trunc(100 * data.earned, 60 * data.goal)
                                 ELSE 100
                            ELSE 0,
                hours_left |-> IF data.rate > 0
                               THEN [num |-> IF left > 0 THEN left ELSE 0,
                                     den |-> 60 * data.rate]
                               ELSE [num |-> 0, den |-> 1]]>>

\* C34: for every user with a row get_progress returns a percent between 0
\* and 100 and hours_left not below 0.
C34_ProgressInRange ==
    \A u \in Users :
        get_progress(users, u) # <<>>
            => /\ get_progress(users, u)[1].percent \in 0..100
               /\ get_progress(users, u)[1].hours_left.num >= 0

\* ------------------------------------------------------- the account in use
\* The state after these updates of a fresh process: user 1 sends /start in
\* the group chat and leaves the question unanswered, then registers in the
\* private chat with rate 60 and goal 100.  The dialogue of the group chat is
\* still open at RATE; answering it now is the one way left to change the
\* rate or the goal of a registered user.  (Reached under SpecStart.)
AccountStart ==
    /\ \E rate \in [Users -> Rates] :
          users = add_user([u \in Users |->
                               [exists |-> FALSE, rate |-> rate[u],
                                goal |-> Goal, earned |-> 0,
                                notify_freq |-> "day"]], 1, 60, 100)
    /\ user_data =
          [u \in Users |->
              IF u = 1
              THEN show_main_menu([EmptyUserData(FALSE) EXCEPT !.rate = <<60>>],
                                  <<>>, TRUE, TRUE).ud
              ELSE EmptyUserData(FALSE)]
    /\ records = [u \in Users |-> <<>>]
    /\ prompts = [u \in Users |-> <<>>]
    /\ jobs = EmptyBag
    /\ duplicates = EmptyBag
    /\ notice = [u \in Users |-> "none"]
    /\ received = [u \in Users |-> <<>>]
    /\ burst = [u \in Users |-> TRUE]
    /\ faulted = FALSE
    /\ call = NoCall
    /\ scheduler = setup_notification({}, 1, "day")
    /\ conversations = [c \in Chats |-> [u \in Users |->
                           IF c = "group" /\ u = 1 THEN "RATE" ELSE "END"]]

InitAccount == AccountStart /\ inputs = 0 /\ budget = MaxInputsAccount

\* the grouping flag is not set, so no process_grouped_timers job is queued
NextAccount ==
    \/ TimerMessage
    \/ Tap
    \/ SecondTap
    \/ RateInput
    \/ GoalInput
    \/ ResetProgress

SpecAccount == InitAccount /\ [][NextAccount]_vars

\* C25: a step that changes a user's earned amount without adding a row (the
\* confirmed progress reset) sets it to 0 and leaves the user's rows of
\* time_records, the history, as they are.
C25_ResetKeepsHistory ==
    [][\A u \in Users :
          (users'[u].earned # users[u].earned
               /\ Len(records'[u]) <= Len(records[u]))
              => (users'[u].earned = 0 /\ records'[u] = records[u])]_vars

\* the sum of the earnings column over rows
RECURSIVE SumEarningsColumn(_)
SumEarningsColumn(rows) ==
    IF rows = <<>> THEN 0
    ELSE Head(rows).earnings + SumEarningsColumn(Tail(rows))

C28_CommitsShownEarnings ==
    ~faulted =>
        \A u \in Users : \A i \in 1..Len(records[u]) :
            records[u][i].earnings = prompts[u][records[u][i].via].earnings

====
